---- MODULE Spec2Model ----
(***************************************************************************)
(* The training loop of src/train.py (train, lines 127-215) as a state     *)
(* machine.  One behaviour is a sequence of invocations of train() that    *)
(* share one checkpoint directory: what a run leaves in the directory is   *)
(* what the next run restores.                                             *)
(*                                                                         *)
(* Losses are counted in units of 0.5, so that the comparison              *)
(*   total_loss / report_interval <= FLAGS.stop_threshold                  *)
(* of line 208 is decided in integers.                                     *)
(***************************************************************************)
EXTENDS Integers, Sequences, FiniteSets

(* ------------------------------ bounds -------------------------------- *)

\* Largest num_training_iterations a run is started with.
MaxIter == 4

\* Largest report_interval a run is started with.
MaxInterval == 3

(* ----------------------------- constants ------------------------------ *)

\* FLAGS.stop_threshold, default 1.0 (line 79), in units of 0.5.
stop_threshold == 2

\* The value standing for "nothing there": no checkpoint in checkpoint_dir,
\* a hook timer that has not triggered yet, a variable not yet assigned.
None == -1

\* The task names train() dispatches on (lines 130-138).
KnownTasks == {"repeat_copy", "variable_assignment", "addition"}

\* The values of FLAGS.task the model draws from: the name of the first
\* branch of lines 130-138 (the default, line 52), the name of the last,
\* and one no branch matches.
TaskNames == {"repeat_copy", "addition", "copy"}

\* The losses one optimization step may return, in units of 0.5: 0.5 and
\* 2.0.  A window of three steps can average the threshold itself
\* (0.5 + 0.5 + 2.0 over 3), less or more.
LossValues == {1, 4}

\* The values of FLAGS.checkpoint_interval (default -1, line 75) and
\* FLAGS.summary_interval (default -1, line 77) the model draws from.
CheckpointIntervals == {-1, 2}
SummaryIntervals == {0, 1}

Iterations == 0..MaxIter
ReportIntervals == 0..MaxInterval

CheckpointSaverHook == "CheckpointSaverHook"
SummarySaverHook == "SummarySaverHook"

(* ------------------------------- state -------------------------------- *)

VARIABLES
  pc,                      \* where train() stands
  FLAGS,                   \* task, checkpoint_interval, summary_interval
  num_training_iterations, \* argument of train()
  report_interval,         \* argument of train()
  hooks,                   \* the hooks list of lines 175-188
  global_step,             \* the global_step variable of the session
  params,                  \* the trainable variables of the session, as the
                           \* number of updates applied to their initial values
  start_iteration,         \* line 194
  train_iteration,         \* the loop variable of line 197
  total_loss,              \* line 195
  checkpoint,              \* Global Step of the latest checkpoint in checkpoint_dir
  saved_params,            \* the trainable variables that checkpoint holds
  ckpt_timer,              \* last step the checkpoint hook saved at
  sum_timer,               \* last step the summary hook wrote at
  outcome,                 \* how the run ended
  executed,                \* iteration indices whose optimization step ran, in order
  losses,                  \* the loss each of them returned
  reports,                 \* the evaluation/log events of the run, in order
  acquired,                \* sessions acquired in the run
  released,                \* sessions released in the run
  finished,                \* "Finished" lines logged in the run
  ckpt_writes,             \* checkpoints written in the run
  summary_writes,          \* summaries written in the run
  batches,                 \* batches drawn from the task in the run
  prev                     \* the run before this one

config == <<FLAGS, num_training_iterations, report_interval, hooks>>
locals == <<start_iteration, train_iteration, total_loss>>
persist == <<checkpoint, saved_params, ckpt_timer, sum_timer, ckpt_writes, summary_writes>>
session == <<acquired, released>>
trace == <<executed, losses, reports, batches>>

vars == <<pc, config, global_step, params, locals, persist, outcome, trace, session,
          finished, prev>>

(* ------------------------------ helpers ------------------------------- *)

RECURSIVE SumSeq(_)
SumSeq(s) == IF s = <<>> THEN 0 ELSE Head(s) + SumSeq(Tail(s))

\* What `prev` holds when the run before this one did not reach COMPLETED,
\* or when there was none.
NoRun == [n |-> None, checkpointing |-> FALSE, start |-> None]

\* TaskIsKnown with the else branch of line 139 missing.
TaskIsKnownNoElse(task) == TRUE

\* Lines 130-140: the branches that build a dataset; the else raises.
TaskIsKnown(task) == task \in KnownTasks

\* BuildHooks with the append of lines 184-188 nested in the branch of
\* line 175.
BuildHooksNested(checkpoint_interval, summary_interval) ==
  IF checkpoint_interval > 0
    THEN <<CheckpointSaverHook>>
           \o (IF summary_interval > 0 THEN <<SummarySaverHook>> ELSE <<>>)
    ELSE <<>>

\* Lines 175-188: the checkpoint hook iff checkpoint_interval > 0, then the
\* summary hook appended iff summary_interval > 0.
BuildHooks(checkpoint_interval, summary_interval) ==
  (IF checkpoint_interval > 0 THEN <<CheckpointSaverHook>> ELSE <<>>)
    \o (IF summary_interval > 0 THEN <<SummarySaverHook>> ELSE <<>>)

HasHook(h) == \E k \in DOMAIN hooks : hooks[k] = h

\* save_steps of a hook (lines 179, 186): the hook acts at a step when it has
\* not acted yet, or when save_steps steps have passed since it last did.
ShouldTrigger(last, step, every) ==
  \/ last = None
  \/ last # step /\ step >= last + every

\* RestoredStep of a session made without checkpoint_dir.
RestoredStepFresh(ckpt) == 0

\* Lines 191-192: the session restores the variables from the latest
\* checkpoint of checkpoint_dir; with none, global_step is initialized to
\* zero (line 162).
RestoredStep(ckpt) == IF ckpt = None THEN 0 ELSE ckpt

\* Lines 191-192: the trainable variables are restored from the same
\* checkpoint; with none they are initialized.
RestoredParams(saved) == IF saved = None THEN 0 ELSE saved

\* Lines 170-171: train_step applies one update to the trainable variables.
ApplyGradients(ps) == ps + 1

\* NextGlobalStep of apply_gradients called without global_step.
NextGlobalStepKept(gs) == gs

\* Lines 170-171: apply_gradients(..., global_step=global_step) adds one to
\* global_step each time train_step runs.
NextGlobalStep(gs) == gs + 1

\* FirstIteration of xrange(num_training_iterations).
FirstIterationZero(start) == 0

\* Line 197: xrange(start_iteration, num_training_iterations) starts at
\* start_iteration.
FirstIteration(start) == start

\* InRange of xrange(start_iteration, num_training_iterations + 1).
InRangeInclusive(iteration, n) == iteration <= n

\* Line 197: xrange(start_iteration, num_training_iterations) yields the
\* indices below num_training_iterations.
InRange(iteration, n) == iteration < n

\* ReportDue counted from the step the run started at.
ReportDueRelative(iteration, interval) ==
  (iteration - start_iteration + 1) % interval = 0

\* ReportDue with the index not advanced by one.
ReportDueOffByOne(iteration, interval) == iteration % interval = 0

\* Line 201, for report_interval # 0.
ReportDue(iteration, interval) == (iteration + 1) % interval = 0

\* Line 208: total_loss / report_interval <= FLAGS.stop_threshold, with true
\* division (line 18) and report_interval > 0 where it is evaluated.
StopTest(total, interval) == total <= stop_threshold * interval

(* ------------------------------- Init --------------------------------- *)

\* Before the first invocation: an empty checkpoint directory.
Init ==
  /\ pc = "idle"
  /\ FLAGS = [task |-> "repeat_copy", checkpoint_interval |-> -1,
              summary_interval |-> -1]
  /\ num_training_iterations = 0
  /\ report_interval = 1
  /\ hooks = <<>>
  /\ global_step = None
  /\ params = None
  /\ start_iteration = None
  /\ train_iteration = None
  /\ total_loss = 0
  /\ checkpoint = None
  /\ saved_params = None
  /\ ckpt_timer = None
  /\ sum_timer = None
  /\ outcome = "NONE"
  /\ executed = <<>>
  /\ losses = <<>>
  /\ reports = <<>>
  /\ acquired = 0
  /\ released = 0
  /\ finished = 0
  /\ ckpt_writes = 0
  /\ summary_writes = 0
  /\ batches = 0
  /\ prev = NoRun

(* ------------------------------ actions ------------------------------- *)

\* What the hooks do after one sess.run call that leaves global_step at gs
\* and the trainable variables at ps
\* (the session of lines 191-192 calls every hook around each run call):
\* the checkpoint hook saves the variables, global_step among them, and the
\* summary hook writes a summary, each on its own save_steps cadence.
AfterRun(gs, ps) ==
  /\ IF HasHook(CheckpointSaverHook)
          /\ ShouldTrigger(ckpt_timer, gs, FLAGS.checkpoint_interval)
       THEN /\ checkpoint' = gs
            /\ saved_params' = ps
            /\ ckpt_timer' = gs
            /\ ckpt_writes' = ckpt_writes + 1
       ELSE UNCHANGED <<checkpoint, saved_params, ckpt_timer, ckpt_writes>>
  /\ IF HasHook(SummarySaverHook)
          /\ ShouldTrigger(sum_timer, gs, FLAGS.summary_interval)
       THEN /\ sum_timer' = gs
            /\ summary_writes' = summary_writes + 1
       ELSE UNCHANGED <<sum_timer, summary_writes>>

\* The batches drawn by a run call that fetches nothing of the dataset
\* itself and leaves global_step at gs: one when the summary hook writes.
SummaryBatches(gs) ==
  IF HasHook(SummarySaverHook)
       /\ ShouldTrigger(sum_timer, gs, FLAGS.summary_interval)
    THEN 1 ELSE 0

\* What a run that has ended leaves for the next one to be compared with:
\* when it reached COMPLETED, its num_training_iterations, whether it had
\* the checkpoint hook, and the Global Step it had read back.
EndedRun ==
  IF outcome = "COMPLETED"
    THEN [n |-> num_training_iterations,
          checkpointing |-> HasHook(CheckpointSaverHook),
          start |-> start_iteration]
    ELSE NoRun

\* Lines 127-188: train() is entered in a fresh process; the task is
\* dispatched (an unknown name raises ValueError), the graph and the hooks
\* are built.  No session exists yet.
Train(task, n, interval, ci, si) ==
  /\ pc = "idle"
  /\ UNCHANGED prev
  /\ FLAGS' = [task |-> task, checkpoint_interval |-> ci,
               summary_interval |-> si]
  /\ num_training_iterations' = n
  /\ report_interval' = interval
  /\ global_step' = None
  /\ params' = None
  /\ start_iteration' = None
  /\ train_iteration' = None
  /\ total_loss' = 0
  /\ ckpt_timer' = None
  /\ sum_timer' = None
  /\ executed' = <<>>
  /\ losses' = <<>>
  /\ reports' = <<>>
  /\ acquired' = 0
  /\ released' = 0
  /\ finished' = 0
  /\ ckpt_writes' = 0
  /\ summary_writes' = 0
  /\ batches' = 0
  /\ UNCHANGED <<checkpoint, saved_params>>
  /\ IF TaskIsKnown(task)
       THEN /\ hooks' = BuildHooks(ci, si)
            /\ outcome' = "NONE"
            /\ pc' = "built"
       ELSE /\ hooks' = <<>>
            /\ outcome' = "CONFIG_ERROR"
            /\ pc' = "error"

\* Lines 191-192: the with statement acquires the session, which restores
\* the variables from checkpoint_dir.
AcquireSession ==
  /\ pc = "built"
  /\ acquired' = acquired + 1
  /\ global_step' = RestoredStep(checkpoint)
  /\ params' = RestoredParams(saved_params)
  /\ pc' = "restored"
  /\ UNCHANGED <<config, locals, persist, outcome, trace, released, finished,
                 prev>>

\* Lines 194-195 and the loop header's first index.  In state "loop",
\* train_iteration is the index xrange yields next.  When the summary hook
\* writes at this run call, its summary_op (line 188, with the train_loss
\* summary of line 151) is evaluated in it, on a batch drawn for it.
ReadGlobalStep ==
  /\ pc = "restored"
  /\ start_iteration' = global_step
  /\ total_loss' = 0
  /\ train_iteration' = FirstIteration(global_step)
  /\ batches' = batches + SummaryBatches(global_step)
  /\ AfterRun(global_step, params)
  /\ pc' = "loop"
  /\ UNCHANGED <<config, global_step, params, outcome, executed, losses,
                 reports, session, finished, prev>>

\* Lines 197-199: one optimization step and the accumulation of its loss.
TrainStep(loss) ==
  /\ pc = "loop"
  /\ InRange(train_iteration, num_training_iterations)
  /\ global_step' = NextGlobalStep(global_step)
  /\ params' = ApplyGradients(params)
  /\ total_loss' = total_loss + loss
  /\ executed' = Append(executed, train_iteration)
  /\ losses' = Append(losses, loss)
  /\ batches' = batches + 1
  /\ AfterRun(NextGlobalStep(global_step), ApplyGradients(params))
  /\ pc' = "stepped"
  /\ UNCHANGED <<config, start_iteration, train_iteration, outcome, reports,
                 session, finished, prev>>

\* Line 201 with report_interval = 0: the modulo raises ZeroDivisionError,
\* which leaves the with block (the session is closed, the hooks' end is
\* not called) and train(); line 215 is not reached.
ModuloByZero ==
  /\ pc = "stepped"
  /\ report_interval = 0
  /\ released' = released + 1
  /\ outcome' = "CRASHED"
  /\ pc' = "crashed"
  /\ UNCHANGED <<config, global_step, params, locals, persist, trace, acquired,
                 finished, prev>>

\* Line 201, condition false: on to the next index.
SkipReport ==
  /\ pc = "stepped"
  /\ report_interval # 0
  /\ ~ReportDue(train_iteration, report_interval)
  /\ train_iteration' = train_iteration + 1
  /\ pc' = "loop"
  /\ UNCHANGED <<config, global_step, params, start_iteration, total_loss, persist,
                 outcome, trace, session, finished, prev>>

\* Report on the batch of the optimization step, with no batch of its own.
ReportReusesBatch ==
  /\ pc = "stepped"
  /\ report_interval # 0
  /\ ReportDue(train_iteration, report_interval)
  /\ reports' = Append(reports, [iteration |-> train_iteration,
                                 total_loss |-> total_loss,
                                 steps |-> Len(executed)])
  /\ AfterRun(global_step, params)
  /\ pc' = "reported"
  /\ UNCHANGED <<config, global_step, params, locals, outcome, executed,
                 losses, batches, session, finished, prev>>

\* Report with train_step among the fetches of line 202.
ReportTrains ==
  /\ pc = "stepped"
  /\ report_interval # 0
  /\ ReportDue(train_iteration, report_interval)
  /\ reports' = Append(reports, [iteration |-> train_iteration,
                                 total_loss |-> total_loss,
                                 steps |-> Len(executed)])
  /\ batches' = batches + 1
  /\ global_step' = NextGlobalStep(global_step)
  /\ params' = ApplyGradients(params)
  /\ AfterRun(NextGlobalStep(global_step), ApplyGradients(params))
  /\ pc' = "reported"
  /\ UNCHANGED <<config, locals, outcome, executed, losses, session,
                 finished, prev>>

\* Lines 201-207: the evaluation (a second sess.run, which draws a batch of
\* its own) and the log line with total_loss / report_interval.
Report ==
  /\ pc = "stepped"
  /\ report_interval # 0
  /\ ReportDue(train_iteration, report_interval)
  /\ reports' = Append(reports, [iteration |-> train_iteration,
                                 total_loss |-> total_loss,
                                 steps |-> Len(executed)])
  /\ batches' = batches + 1
  /\ AfterRun(global_step, params)
  /\ pc' = "reported"
  /\ UNCHANGED <<config, global_step, params, locals, outcome, executed, losses,
                 session, finished, prev>>

\* EarlyStop with the break of line 212 missing: line 213 and the next
\* index follow.
EarlyStopNoBreak ==
  /\ pc = "reported"
  /\ StopTest(total_loss, report_interval)
  /\ total_loss' = 0
  /\ train_iteration' = train_iteration + 1
  /\ pc' = "loop"
  /\ UNCHANGED <<config, global_step, params, start_iteration, persist, outcome,
                 trace, session, finished, prev>>

\* Lines 208-212: the early stop leaves the loop.
EarlyStop ==
  /\ pc = "reported"
  /\ StopTest(total_loss, report_interval)
  /\ outcome' = "STOPPED_EARLY"
  /\ pc' = "exit"
  /\ UNCHANGED <<config, global_step, params, locals, persist, trace, session,
                 finished, prev>>

\* Line 213: the window's total is reset, on to the next index.
ResetTotal ==
  /\ pc = "reported"
  /\ ~StopTest(total_loss, report_interval)
  /\ total_loss' = 0
  /\ train_iteration' = train_iteration + 1
  /\ pc' = "loop"
  /\ UNCHANGED <<config, global_step, params, start_iteration, persist, outcome,
                 trace, session, finished, prev>>

\* LoopExhausted followed by a last early-stop test on what total_loss
\* holds.
LoopExhaustedTestsTail ==
  /\ pc = "loop"
  /\ ~InRange(train_iteration, num_training_iterations)
  /\ outcome' = IF StopTest(total_loss, report_interval)
                  THEN "STOPPED_EARLY" ELSE "COMPLETED"
  /\ pc' = "exit"
  /\ UNCHANGED <<config, global_step, params, locals, persist, trace,
                 session, finished, prev>>

\* Line 197: xrange is exhausted.
LoopExhausted ==
  /\ pc = "loop"
  /\ ~InRange(train_iteration, num_training_iterations)
  /\ outcome' = "COMPLETED"
  /\ pc' = "exit"
  /\ UNCHANGED <<config, global_step, params, locals, persist, trace, session,
                 finished, prev>>

\* Lines 191-214: leaving the with block releases the session; on a normal
\* exit the checkpoint hook first saves the final step unless it has just
\* saved it.
ReleaseSession ==
  /\ pc = "exit"
  /\ released' = released + 1
  /\ IF HasHook(CheckpointSaverHook) /\ global_step # ckpt_timer
       THEN /\ checkpoint' = global_step
            /\ saved_params' = params
            /\ ckpt_timer' = global_step
            /\ ckpt_writes' = ckpt_writes + 1
       ELSE UNCHANGED <<checkpoint, saved_params, ckpt_timer, ckpt_writes>>
  /\ pc' = "closed"
  /\ UNCHANGED <<config, global_step, params, locals, sum_timer, summary_writes,
                 outcome, trace, acquired, finished, prev>>

\* LogFinished with line 215 indented into the with block.
LogFinishedInWith ==
  /\ pc = "exit"
  /\ finished = 0
  /\ finished' = finished + 1
  /\ UNCHANGED <<pc, config, global_step, params, locals, persist, outcome, trace,
                 session, prev>>

\* Line 215.
LogFinished ==
  /\ pc = "closed"
  /\ finished' = finished + 1
  /\ pc' = "done"
  /\ UNCHANGED <<config, global_step, params, locals, persist, outcome, trace,
                 session, prev>>

\* The process ends (lines 217-223): after line 215, or with the ValueError
\* of line 140 or the ZeroDivisionError of line 201.  Nothing of it remains
\* but the checkpoint directory.
Exit ==
  /\ pc \in {"done", "error", "crashed"}
  /\ prev' = EndedRun
  /\ pc' = "idle"
  /\ FLAGS' = [task |-> "repeat_copy", checkpoint_interval |-> -1,
               summary_interval |-> -1]
  /\ num_training_iterations' = 0
  /\ report_interval' = 1
  /\ hooks' = <<>>
  /\ global_step' = None
  /\ params' = None
  /\ start_iteration' = None
  /\ train_iteration' = None
  /\ total_loss' = 0
  /\ ckpt_timer' = None
  /\ sum_timer' = None
  /\ outcome' = "NONE"
  /\ executed' = <<>>
  /\ losses' = <<>>
  /\ reports' = <<>>
  /\ acquired' = 0
  /\ released' = 0
  /\ finished' = 0
  /\ ckpt_writes' = 0
  /\ summary_writes' = 0
  /\ batches' = 0
  /\ UNCHANGED <<checkpoint, saved_params>>

Next ==
  \/ \E task \in TaskNames, n \in Iterations, interval \in ReportIntervals,
        ci \in CheckpointIntervals, si \in SummaryIntervals :
       Train(task, n, interval, ci, si)
  \/ AcquireSession
  \/ ReadGlobalStep
  \/ \E loss \in LossValues : TrainStep(loss)
  \/ ModuloByZero
  \/ SkipReport
  \/ Report
  \/ EarlyStop
  \/ ResetTotal
  \/ LoopExhausted
  \/ ReleaseSession
  \/ LogFinished
  \/ Exit

Spec == Init /\ [][Next]_vars

\* The steps of a run, from the acquisition of the session to line 215.
RunStep ==
  \/ AcquireSession
  \/ ReadGlobalStep
  \/ \E loss \in LossValues : TrainStep(loss)
  \/ ModuloByZero
  \/ SkipReport
  \/ Report
  \/ EarlyStop
  \/ ResetTotal
  \/ LoopExhausted
  \/ ReleaseSession
  \/ LogFinished

\* train() is one sequential thread (lines 191-215): each statement it has
\* reached is executed, every sess.run call returning.  Whether another run
\* is started is left open.
FairSpec == Spec /\ WF_vars(RunStep)

(* ----------------------------- properties ----------------------------- *)

\* The run has read Global Step back (line 194) and has not left train().
AfterRead == pc \in {"loop", "stepped", "reported", "exit", "closed", "done",
                     "crashed"}

\* The run has left the loop through line 197 or line 212.
LoopLeft == pc \in {"exit", "closed", "done"}

\* The test of line 208 on the total a report logged.
ReportStops(r) == r.total_loss <= stop_threshold * report_interval

\* The run before this one reached COMPLETED with the same
\* num_training_iterations.
SecondRunSameN == prev.n # None /\ prev.n = num_training_iterations

\* C1, as stated: after a run with num_training_iterations = N has reached
\* COMPLETED and released its session, a second run with the same N reads
\* Global Step = N back, executes no optimization step and ends with
\* Global Step = N.
C1_ResumeReadsN ==
  (SecondRunSameN /\ AfterRead) =>
    /\ start_iteration = num_training_iterations
    /\ executed = <<>>
    /\ global_step = num_training_iterations

\* C1, amended: the same, when the first run had the checkpoint hook
\* (checkpoint_interval > 0) and had itself read back a Global Step of at
\* most N.
C1_ResumeReadsNWhenSaved ==
  (SecondRunSameN /\ prev.checkpointing /\ prev.start <= prev.n /\ AfterRead)
    => /\ start_iteration = num_training_iterations
       /\ executed = <<>>
       /\ global_step = num_training_iterations

C1_Witness ==
  /\ SecondRunSameN /\ prev.checkpointing /\ prev.start <= prev.n
  /\ num_training_iterations >= 2
  /\ prev.start < prev.n
  /\ pc = "done"
  /\ outcome = "COMPLETED"
  /\ start_iteration = num_training_iterations
  /\ executed = <<>>

\* C2: the Global Step read back is the persisted one (0 when nothing is
\* persisted); the optimization steps of a run are those of the indices s,
\* s+1, ... in this order, each below num_training_iterations; when
\* num_training_iterations <= s no step and no evaluation/log happens and
\* the run ends in COMPLETED.
C2_ContinuesFromRestoredStep ==
  /\ pc = "restored" =>
       global_step = (IF checkpoint = None THEN 0 ELSE checkpoint)
  /\ AfterRead =>
       /\ global_step = start_iteration + Len(executed)
       /\ \A k \in DOMAIN executed :
            /\ executed[k] = start_iteration + (k - 1)
            /\ executed[k] < num_training_iterations
       /\ (executed = <<>> /\ pc = "loop") => train_iteration = start_iteration
       /\ num_training_iterations <= start_iteration =>
            /\ executed = <<>>
            /\ reports = <<>>
            /\ pc # "crashed"
            /\ LoopLeft => outcome = "COMPLETED"

C2_Witness ==
  /\ pc = "done"
  /\ start_iteration >= 2
  /\ Len(executed) >= 2
  /\ executed[1] = start_iteration

\* C3: a report whose total_loss / report_interval is at most stop_threshold
\* is the last event of the loop: the run is in STOPPED_EARLY and no
\* optimization step or report follows it.  With report_interval = 1 and
\* losses 2.0, 2.0, 0.5 from step 0 there are three steps, never a fourth.
C3_EarlyStopIsImmediate ==
  /\ \A k \in DOMAIN reports :
       ReportStops(reports[k]) =>
         /\ k = Len(reports)
         /\ Len(executed) = reports[k].steps
         /\ pc \in {"reported", "exit", "closed", "done"}
         /\ pc # "reported" => outcome = "STOPPED_EARLY"
  /\ (/\ report_interval = 1
      /\ start_iteration = 0
      /\ Len(losses) >= 3
      /\ SubSeq(losses, 1, 3) = <<4, 4, 1>>) => Len(executed) = 3

C3_Witness ==
  /\ pc = "done"
  /\ outcome = "STOPPED_EARLY"
  /\ report_interval = 1
  /\ num_training_iterations = 4
  /\ start_iteration = 0
  /\ losses = <<4, 4, 1>>
  /\ executed = <<0, 1, 2>>

\* The reports logged for iteration index i.
ReportsOf(i) == {j \in DOMAIN reports : reports[j].iteration = i}

\* C4: for every executed index i whose line 201 has been decided, there
\* is one evaluation/log event for i, made before any later optimization
\* step, when (i + 1) mod report_interval = 0, and none otherwise.
C4_ReportingCadence ==
  report_interval # 0 =>
    /\ \A k \in DOMAIN executed :
         (k < Len(executed) \/ pc # "stepped") =>
           IF (executed[k] + 1) % report_interval = 0
             THEN /\ Cardinality(ReportsOf(executed[k])) = 1
                  /\ \A j \in ReportsOf(executed[k]) : reports[j].steps = k
             ELSE ReportsOf(executed[k]) = {}
    /\ \A j \in DOMAIN reports :
         \E k \in DOMAIN executed : executed[k] = reports[j].iteration

C4_Witness ==
  /\ pc = "done"
  /\ report_interval = 2
  /\ executed = <<0, 1, 2, 3>>
  /\ Len(reports) = 2
  /\ reports[1].iteration = 1
  /\ reports[2].iteration = 3

\* The number of optimization steps the run had made when the window of
\* report k began: at the report before it, or at the start of the run.
WindowStart(k) == IF k = 1 THEN 0 ELSE reports[k - 1].steps

\* C5, as stated: total_loss is zero when a window begins, and at every
\* report, in a first run or in a resumed one, it is the sum of the losses
\* of exactly report_interval optimization steps.
C5_TotalCoversFullWindow ==
  /\ (pc = "loop" /\ executed = <<>>) => total_loss = 0
  /\ \A k \in DOMAIN reports :
       /\ reports[k].steps - WindowStart(k) = report_interval
       /\ reports[k].total_loss =
            SumSeq(SubSeq(losses, WindowStart(k) + 1, reports[k].steps))

\* What does hold in every run: the total logged is the sum of the losses
\* since the window began, over at most report_interval steps.
C5_TotalCoversWindowSoFar ==
  \A k \in DOMAIN reports :
    /\ reports[k].steps - WindowStart(k) <= report_interval
    /\ reports[k].total_loss =
         SumSeq(SubSeq(losses, WindowStart(k) + 1, reports[k].steps))

\* The run is between session acquisition and process exit.
InRun == pc \in {"restored", "loop", "stepped", "reported", "exit", "closed"}

\* C6: right after the optimization step of index i, Global Step = i + 1;
\* an optimization step adds exactly one to Global Step and no other step
\* of the run changes it, so it never decreases during the run.
C6_GlobalStepAdvancesByOne ==
  /\ [](pc \in {"stepped", "reported"} => global_step = train_iteration + 1)
  /\ [][IF pc = "loop" /\ pc' = "stepped"
          THEN global_step' = global_step + 1
          ELSE InRun => global_step' = global_step]_vars

C6_Witness ==
  /\ pc = "stepped"
  /\ start_iteration >= 1
  /\ Len(executed) >= 2
  /\ global_step = train_iteration + 1

C8_UnknownTaskFailsFast ==
  (pc # "idle"
     /\ FLAGS.task \notin {"repeat_copy", "variable_assignment", "addition"})
    => /\ pc = "error"
       /\ outcome = "CONFIG_ERROR"
       /\ acquired = 0
       /\ global_step = None
       /\ start_iteration = None
       /\ executed = <<>>
       /\ reports = <<>>
       /\ ckpt_writes = 0
       /\ summary_writes = 0
       /\ batches = 0
       /\ finished = 0

C8_Witness ==
  /\ pc = "error"
  /\ FLAGS.task = "copy"
  /\ checkpoint # None
  /\ checkpoint > 0
  /\ acquired = 0
  /\ finished = 0

\* C9: a hook is in the hooks list iff its own interval is positive; with
\* checkpoint_interval <= 0 no step of the run writes a checkpoint, with
\* summary_interval <= 0 no step writes a summary.
C9_NonPositiveIntervalsDisableHooks ==
  /\ [](pc \notin {"idle", "error"} =>
          /\ HasHook(CheckpointSaverHook) <=> FLAGS.checkpoint_interval > 0
          /\ HasHook(SummarySaverHook) <=> FLAGS.summary_interval > 0
          /\ FLAGS.checkpoint_interval <= 0 => ckpt_writes = 0
          /\ FLAGS.summary_interval <= 0 => summary_writes = 0)
  /\ [][FLAGS.checkpoint_interval <= 0 => checkpoint' = checkpoint]_vars
  /\ [][(FLAGS.summary_interval <= 0 /\ pc' # "idle") =>
          sum_timer' = sum_timer]_vars

C9_Witness ==
  /\ pc = "done"
  /\ FLAGS.checkpoint_interval <= 0
  /\ FLAGS.summary_interval > 0
  /\ executed # <<>>
  /\ summary_writes >= 2
  /\ ckpt_writes = 0
  /\ hooks = <<SummarySaverHook>>

\* No report of the run passed the test of line 208.
NoReportStops == \A k \in DOMAIN reports : ~ReportStops(reports[k])

\* The indices from the Global Step read back to the last one.
AllIndices ==
  [k \in 1..(num_training_iterations - start_iteration) |->
     start_iteration + (k - 1)]

\* C10, as stated: a run that read s <= num_training_iterations back and in
\* which no report passes the early-stop test executes every index from s
\* on, ends in COMPLETED and leaves Global Step = num_training_iterations;
\* a run is in STOPPED_EARLY only after a report that passes the test.
C10_OnlyEarlyStopEndsEarly ==
  /\ (/\ pc \in {"closed", "done", "crashed"}
      /\ start_iteration <= num_training_iterations
      /\ NoReportStops)
       => /\ outcome = "COMPLETED"
          /\ executed = AllIndices
          /\ global_step = num_training_iterations
  /\ outcome = "STOPPED_EARLY" =>
       /\ reports # <<>>
       /\ ReportStops(reports[Len(reports)])
       /\ reports[Len(reports)].steps = Len(executed)

\* What does hold: the same for the runs with report_interval # 0.
C10_OnlyEarlyStopEndsEarlyNonZero ==
  report_interval # 0 => C10_OnlyEarlyStopEndsEarly

\* The step is the optimization step of lines 198-199.
IsTrainStep == pc = "loop" /\ pc' = "stepped"

\* The step leaves Global Step and the trainable variables as they are.
TrainingStateKept == global_step' = global_step /\ params' = params

\* C11: the evaluation/report, the initial read of Global Step and the
\* hooks (after a run call and at the end of the session) leave Global Step
\* and the trainable variables unchanged, and a checkpoint holds the values
\* the session has; within a run only the optimization step changes them.
C11_EvaluationAndHooksReadOnly ==
  /\ [][(pc = "stepped" /\ pc' = "reported") => TrainingStateKept]_vars
  /\ [][(pc = "restored" /\ pc' = "loop") =>
          TrainingStateKept /\ start_iteration' = global_step]_vars
  /\ [][(pc = "exit" /\ pc' = "closed") => TrainingStateKept]_vars
  /\ [][(ckpt_writes' > ckpt_writes \/ summary_writes' > summary_writes) =>
          /\ ~IsTrainStep => TrainingStateKept
          /\ ckpt_writes' > ckpt_writes =>
               checkpoint' = global_step' /\ saved_params' = params']_vars
  /\ [][(InRun /\ ~IsTrainStep) => TrainingStateKept]_vars
  /\ [][IsTrainStep =>
          global_step' # global_step /\ params' # params]_vars

C11_Witness ==
  /\ pc = "reported"
  /\ start_iteration >= 1
  /\ ckpt_writes >= 2
  /\ summary_writes >= 2
  /\ Len(reports) >= 1
  /\ global_step = start_iteration + Len(executed)
  /\ params = global_step

\* The states of the loop controller, in their order: RESTORING, RUNNING,
\* and the terminal states with their shutdown (or the raise of line 201).
Phase(p) ==
  CASE p = "restored" -> 1
    [] p \in {"loop", "stepped", "reported"} -> 2
    [] p \in {"exit", "closed", "done", "crashed"} -> 3
    [] OTHER -> 0

\* max(0, num_training_iterations - s) for the Global Step s read back.
StepBudget ==
  IF num_training_iterations > start_iteration
    THEN num_training_iterations - start_iteration ELSE 0

\* C12: a run with a known task and report_interval # 0 that has acquired
\* its session reaches line 215 in STOPPED_EARLY or COMPLETED; it makes at
\* most max(0, num_training_iterations - s) optimization steps, goes from
\* RESTORING to RUNNING to a terminal state and never back, and once in a
\* terminal state stays in that one.
C12_RunTerminates ==
  /\ (pc = "restored" /\ report_interval # 0) ~>
       (pc = "done" /\ outcome \in {"COMPLETED", "STOPPED_EARLY"})
  /\ [](AfterRead => Len(executed) <= StepBudget)
  /\ [](/\ Phase(pc) \in {1, 2} => outcome = "NONE"
        /\ (LoopLeft /\ report_interval # 0) =>
             outcome \in {"COMPLETED", "STOPPED_EARLY"})
  /\ [][pc' # "idle" => Phase(pc') >= Phase(pc)]_vars
  /\ [][(outcome \in {"COMPLETED", "STOPPED_EARLY"} /\ pc' # "idle") =>
          outcome' = outcome]_vars

C12_Witness ==
  /\ pc = "done"
  /\ outcome = "STOPPED_EARLY"
  /\ start_iteration >= 1
  /\ Len(executed) >= 2
  /\ Len(executed) < StepBudget

\* C13, as stated: the number of batches a run has drawn from the task is
\* the number of optimization steps it has executed.
C13_OneBatchPerStep ==
  AfterRead => batches = Len(executed)

\* C13, amended: every optimization step draws one batch, every
\* evaluation/log event draws one more, and so does the initial read of
\* Global Step when the summary hook is registered.
C13_BatchesOfStepsAndReports ==
  /\ pc \in {"built", "restored", "error"} => batches = 0
  /\ AfterRead =>
       batches = Len(executed) + Len(reports)
                   + (IF HasHook(SummarySaverHook) THEN 1 ELSE 0)

C13_Witness ==
  /\ pc = "done"
  /\ ~HasHook(SummarySaverHook)
  /\ Len(executed) = 4
  /\ Len(reports) = 2
  /\ batches = 6

\* The iteration indices the run logged a report for.
ReportedIndices == {reports[j].iteration : j \in DOMAIN reports}

\* C14: in a run with report_interval >= 1 that read s <= N =
\* num_training_iterations back and was not stopped early, the reports are
\* those of the indices i in s..N-1 with (i + 1) mod report_interval = 0,
\* whatever s is: floor(N / report_interval) - floor(s / report_interval)
\* of them.
C14_ReportsAlignedToAbsoluteIndex ==
  (/\ LoopLeft
   /\ outcome = "COMPLETED"
   /\ report_interval >= 1
   /\ start_iteration <= num_training_iterations)
    => /\ Len(reports) = (num_training_iterations \div report_interval)
                           - (start_iteration \div report_interval)
       /\ Cardinality(ReportedIndices) = Len(reports)
       /\ ReportedIndices =
            {i \in start_iteration..(num_training_iterations - 1) :
               (i + 1) % report_interval = 0}

C14_Witness ==
  /\ pc = "done"
  /\ outcome = "COMPLETED"
  /\ report_interval = 3
  /\ start_iteration = 1
  /\ num_training_iterations = 4
  /\ Len(reports) = 1
  /\ reports[1].iteration = 2
  /\ reports[1].steps = 2

\* The first index after the last report boundary below
\* num_training_iterations, for report_interval >= 1.
LastBoundary ==
  num_training_iterations - (num_training_iterations % report_interval)

\* The number of optimization steps the run made after that boundary.
TailSteps ==
  num_training_iterations
    - (IF start_iteration > LastBoundary THEN start_iteration
                                         ELSE LastBoundary)

\* C15: when num_training_iterations is not a multiple of report_interval
\* and the run has executed its last index, the steps after the last
\* report boundary are summed in total_loss, no report covers them, and
\* the run is in COMPLETED whatever their losses are.
C15_TrailingWindowNeverReported ==
  (/\ LoopLeft
   /\ report_interval >= 1
   /\ num_training_iterations % report_interval # 0
   /\ executed # <<>>
   /\ executed[Len(executed)] = num_training_iterations - 1)
    => /\ outcome = "COMPLETED"
       /\ TailSteps >= 1
       /\ total_loss =
            SumSeq(SubSeq(losses, Len(losses) - TailSteps + 1, Len(losses)))
       /\ \A j \in DOMAIN reports :
            /\ reports[j].iteration < LastBoundary
            /\ reports[j].steps <= Len(executed) - TailSteps

C15_Witness ==
  /\ pc = "done"
  /\ outcome = "COMPLETED"
  /\ report_interval = 2
  /\ num_training_iterations = 3
  /\ losses = <<4, 4, 1>>
  /\ Len(reports) = 1
  /\ total_loss = 1
  /\ StopTest(total_loss, report_interval)

====
